---- MODULE Spec2Model ----
(***************************************************************************)
(* A model of xiprd.c, a RAM-backed block driver: the module's life cycle  *)
(* (xiprd_init with its err_out path, xiprd_exit) against the host block   *)
(* layer, and the request path (xiprd_make_request) run by concurrent      *)
(* submitters under dev->lock.                                             *)
(*                                                                         *)
(* Memory is kept in cells of Cell bytes: one cell stands for Cell         *)
(* consecutive bytes that always hold the same value, which is exact       *)
(* because every offset and length of the model is a multiple of Cell.     *)
(* Offsets, lengths and sizes are byte counts, as in the source.           *)
(***************************************************************************)
EXTENDS Integers, Sequences, FiniteSets, TLC

\* ---------------------------------------------------------------- constants

SECTOR_SHIFT == 9
KERNEL_SHIFT == 9
SECTOR_SIZE == 2 ^ SECTOR_SHIFT
ENOMEM == 12

\* ------------------------------------------------------------------- bounds

\* Highest start sector (in the host's 512-byte units) a submitted bio names.
MaxSector == 1
\* Most segments in one bio.
MaxSegs == 2

\* The submitters: each brings one bio to xiprd_make_request, at any time
\* while the disk is published.
Threads == {1, 2}

\* Bytes per memory cell of the model.
Cell == SECTOR_SIZE \div 2
\* Bytes of memory the model keeps from the start of the vmalloc area on: the
\* area itself and what lies behind it, as far as any bio of the model reaches.
MemTop == (MaxSector + MaxSegs) * SECTOR_SIZE
CellAddrs == {a \in 0..(MemTop - 1) : a % Cell = 0}
\* Segment lengths (bv_len) a bio may carry.
SegLens == {0, SECTOR_SIZE}
\* What vmalloc'ed memory may hold before anything is written to it.
StaleFills == {0, 255}
\* The (sector_size, num_sectors) module parameters a load may give.
Configs ==
    { [sector_size |-> SECTOR_SIZE, num_sectors |-> 2, long_bits |-> 64],
      [sector_size |-> 2 * SECTOR_SIZE, num_sectors |-> 1, long_bits |-> 64],
      [sector_size |-> 0, num_sectors |-> 2, long_bits |-> 64],
      [sector_size |-> SECTOR_SIZE, num_sectors |-> 0, long_bits |-> 64],
      [sector_size |-> 0 - SECTOR_SIZE, num_sectors |-> 2, long_bits |-> 64] }

\* Parameters of a size at which the widths of the integers show: devices from
\* one sector up to and just beyond 2^27 host sectors (64 GiB), with 512-byte
\* and 4096-byte sectors, built with a 32-bit and with a 64-bit unsigned long.
\* All their capacities in host sectors are below 2^31.
GeoConfigs ==
    [sector_size : {SECTOR_SIZE, 8 * SECTOR_SIZE},
     num_sectors : {1, 2048, 2 ^ 18, 2 ^ 21, 2 ^ 23 + 2,
                    2 ^ 27 - 2048, 2 ^ 27, 2 ^ 27 + 2048},
     long_bits : {32, 64}]
\* Majors the host may hand out for register_blkdev(0, name), and its errors.
DynMajors == {254}
RegErrors == {0 - 16}

NULL == "NULL"

\* ------------------------------------------------------ 64-bit arithmetic
\* A u64 is a function 0..7 -> 0..255 (little-endian bytes): the products of
\* the source are taken modulo 2^64, which no TLC integer holds.

Limbs == 0..((64 \div 8) - 1)
LimbBase == 2 ^ 8

RECURSIVE LimbOf(_, _)
LimbOf(x, i) == IF i = 0 THEN x % LimbBase ELSE LimbOf(x \div LimbBase, i - 1)

\* (u64)x of a C integer x: two's complement, by floor division.
ToU64(x) == [i \in Limbs |-> LimbOf(x, i)]

RECURSIVE SumTo(_, _)
SumTo(f, n) == IF n < 0 THEN 0 ELSE f[n] + SumTo(f, n - 1)

\* Column sums of the schoolbook product, columns 0..7 only (modulo 2^64).
MulColumns(a, b) ==
    [k \in Limbs |-> SumTo([i \in 0..k |-> a[i] * b[k - i]], k)]

RECURSIVE CarryInto(_, _)
CarryInto(c, k) ==
    IF k = 0 THEN 0 ELSE (c[k - 1] + CarryInto(c, k - 1)) \div LimbBase

MulU64(a, b) ==
    LET c == MulColumns(a, b)
    IN  [k \in Limbs |-> (c[k] + CarryInto(c, k)) % LimbBase]

IsZeroU64(a) == \A i \in Limbs : a[i] = 0

\* Whether the u64 is below 2^24, so that U64Low is all of it.
FitsInt(a) == \A i \in Limbs : i >= 3 => a[i] = 0
U64Low(a) == a[0] + LimbBase * a[1] + LimbBase * LimbBase * a[2]

\* a >> n: limb i takes the high bits of limb i + n/8 and, above them, the low
\* n%8 bits of the limb after it; zeros come in at the top.
LimbAt(a, i) == IF i \in Limbs THEN a[i] ELSE 0
ShrU64(a, n) ==
    LET q == n \div 8
        r == n % 8
    IN  [i \in Limbs |->
            (LimbAt(a, i + q) \div (2 ^ r))
                + (LimbAt(a, i + q + 1) % (2 ^ r)) * (2 ^ (8 - r))]

\* -------------------------------------------------------------------- state

VARIABLES
    cfg,        \* the module parameters sector_size and num_sectors, and the
                \* width of unsigned long in the build
    dev,        \* globaldev: major, disk, size, ramdisk, and whether lock is initialised
    kernel_sectors,
    gd,         \* the gendisk's fields the driver sets: major, queue, capacity
    host,       \* the host's side: the vmalloc area, registered majors, disk, queue, published
    log,        \* the host calls made so far, in order
    ipc,        \* where xiprd_init / xiprd_exit stands
    rc,         \* xiprd_init's rc
    geo,        \* the hd_geometry that the last xiprd_getgeo filled in
    prev,       \* the capacity and geometry seen in the load before this one
    mem,        \* the bytes from dev->ramdisk on, per cell
    lock,       \* dev->lock: 0 when free, else the holder
    pc,         \* per submitter: where it stands in xiprd_make_request
    bio,        \* per submitter: the bio it submitted
    segno,      \* per submitter: bio_for_each_segment's index
    offset,     \* per submitter: the local offset
    page,       \* per submitter: the bio's pages, one per segment, per cell
    done,       \* per submitter: what bio_endio reported, and what had been copied then
    shadow      \* per cell: what a one-at-a-time execution of the bios would hold

lifeVars == <<cfg, dev, kernel_sectors, gd, host, log, ipc, rc, geo, prev>>
ioVars == <<lock, pc, bio, segno, offset, page, done, shadow>>
vars == <<cfg, dev, kernel_sectors, gd, host, log, ipc, rc, geo, prev, mem,
          lock, pc, bio, segno, offset, page, done, shadow>>

ZeroDev ==
    [major |-> 0, disk |-> NULL, size |-> ToU64(0), ramdisk |-> NULL,
     lock_init |-> FALSE]

NoBio == [dir |-> "NONE", bi_sector |-> 0, lens |-> <<>>]
NotDone == [signalled |-> FALSE, error |-> 0, copied |-> 0, locked |-> FALSE]

\* One entry of the log: the host call, its argument, and whether it took effect.
Ev(op, arg, ok) == [op |-> op, arg |-> arg, ok |-> ok]

\* No geometry asked for yet, and no earlier load.
NoGeo == [heads |-> 0, sectors |-> 0, cylinders |-> 0, filled |-> FALSE]
NoPrev == [seen |-> FALSE, capacity |-> ToU64(0), geo |-> NoGeo]

ZeroDisk == [major |-> 0, queue |-> NULL, capacity |-> ToU64(0)]
NoHost ==
    [vm |-> "none", vmlen |-> ToU64(0), majors |-> {}, disk |-> "none",
     queue |-> "none", published |-> FALSE]

\* The module before it is loaded with one of the parameter sets cs.
Unloaded(cs) ==
    /\ cfg \in cs
    /\ dev = ZeroDev
    /\ kernel_sectors = ToU64(0)
    /\ gd = ZeroDisk
    /\ host = NoHost
    /\ log = <<>>
    /\ ipc = "unloaded"
    /\ rc = 0
    /\ geo = NoGeo
    /\ prev = NoPrev
    /\ mem = [a \in CellAddrs |-> 0]
    /\ lock = 0
    /\ pc = [t \in Threads |-> "idle"]
    /\ bio = [t \in Threads |-> NoBio]
    /\ segno = [t \in Threads |-> 0]
    /\ offset = [t \in Threads |-> 0]
    /\ page = [t \in Threads |-> <<>>]
    /\ done = [t \in Threads |-> NotDone]
    /\ shadow = [a \in CellAddrs |-> 0]

Init == Unloaded(Configs)

\* --------------------------------------------------------------- xiprd_init

\* memset(dev, 0), the name, and dev->size = (u64)num_sectors * (u64)sector_size.
InitStart ==
    /\ ipc = "unloaded"
    /\ dev' = [ZeroDev EXCEPT
                 !.size = MulU64(ToU64(cfg.num_sectors), ToU64(cfg.sector_size))]
    /\ rc' = 0
    /\ ipc' = "vmalloc"
    /\ UNCHANGED <<geo, prev, cfg, kernel_sectors, gd, host, log, mem>>
    /\ UNCHANGED ioVars

\* The u64 as the argument of vmalloc(unsigned long size): all of it where
\* unsigned long has 64 bits, its low 32 bits where it has 32.
VmallocArg(size) ==
    [i \in Limbs |-> IF 8 * i < cfg.long_bits THEN size[i] ELSE 0]

\* vmalloc can give the area only when the size asked for is not 0 and the
\* host has the memory: here a host with less than 2^40 bytes.
VmallocCanSucceed(size) ==
    /\ ~IsZeroU64(VmallocArg(size))
    /\ \A i \in Limbs : 8 * i >= 40 => VmallocArg(size)[i] = 0

\* dev->ramdisk = vmalloc(dev->size); NULL: rc = -ENOMEM, goto err_out.
InitVmalloc ==
    /\ ipc = "vmalloc"
    /\ \/ /\ VmallocCanSucceed(dev.size)
          /\ \E fill \in StaleFills :
                /\ mem' = [a \in CellAddrs |-> fill]
                /\ shadow' = [a \in CellAddrs |-> fill]
          /\ dev' = [dev EXCEPT !.ramdisk = "ramdisk"]
          /\ host' = [host EXCEPT !.vm = "live", !.vmlen = VmallocArg(dev.size)]
          /\ log' = Append(log, Ev("vmalloc", 0, TRUE))
          /\ ipc' = "register"
          /\ UNCHANGED rc
       \/ /\ log' = Append(log, Ev("vmalloc", 0, FALSE))
          /\ rc' = 0 - ENOMEM
          /\ ipc' = "err_vfree"
          /\ UNCHANGED <<dev, host, mem, shadow>>
    /\ UNCHANGED <<geo, prev, cfg, kernel_sectors, gd>>
    /\ UNCHANGED <<lock, pc, bio, segno, offset, page, done>>

\* rc = register_blkdev(0, dev->name); rc < 0: goto err_out. The major the host
\* hands out is left in rc: nothing stores it in dev->major.
InitRegister ==
    /\ ipc = "register"
    /\ \E r \in DynMajors \cup RegErrors :
          /\ rc' = r
          /\ IF r < 0
             THEN /\ ipc' = "err_vfree"
                  /\ log' = Append(log, Ev("register_blkdev", r, FALSE))
                  /\ UNCHANGED host
             ELSE /\ ipc' = "alloc_disk"
                  /\ log' = Append(log, Ev("register_blkdev", r, TRUE))
                  /\ host' = [host EXCEPT !.majors = @ \cup {r}]
    /\ UNCHANGED <<geo, prev, cfg, dev, kernel_sectors, gd, mem>>
    /\ UNCHANGED ioVars

\* dev->disk = alloc_disk(NUM_MINORS); NULL: rc = -ENOMEM, goto err_out. Then the
\* disk's name, major (dev->major), first_minor, fops and private_data.
InitAllocDisk ==
    /\ ipc = "alloc_disk"
    /\ \/ /\ dev' = [dev EXCEPT !.disk = "disk"]
          /\ host' = [host EXCEPT !.disk = "live"]
          /\ gd' = [major |-> dev.major, queue |-> NULL, capacity |-> ToU64(0)]
          /\ log' = Append(log, Ev("alloc_disk", 0, TRUE))
          /\ ipc' = "alloc_queue"
          /\ UNCHANGED rc
       \/ /\ log' = Append(log, Ev("alloc_disk", 0, FALSE))
          /\ rc' = 0 - ENOMEM
          /\ ipc' = "err_vfree"
          /\ UNCHANGED <<dev, host, gd>>
    /\ UNCHANGED <<geo, prev, cfg, kernel_sectors, mem>>
    /\ UNCHANGED ioVars

\* InitAllocQueue with the failure's goto err_out left out: init goes on to
\* add_disk with no queue.
InitAllocQueueNoGoto ==
    /\ ipc = "alloc_queue"
    /\ \E got \in BOOLEAN :
          /\ gd' = [gd EXCEPT !.queue = IF got THEN "queue" ELSE NULL]
          /\ host' = [host EXCEPT !.queue = IF got THEN "live" ELSE @]
          /\ log' = Append(log, Ev("blk_alloc_queue", 0, got))
          /\ rc' = IF got THEN rc ELSE 0 - ENOMEM
    /\ dev' = [dev EXCEPT !.lock_init = TRUE]
    /\ ipc' = "add_disk"
    /\ UNCHANGED <<geo, prev, cfg, kernel_sectors, mem>>
    /\ UNCHANGED ioVars

\* dev->disk->queue = blk_alloc_queue(GFP_KERNEL); NULL: rc = -ENOMEM, goto
\* err_out. Then the make_request function, the block size, queuedata,
\* kernel_sectors, set_capacity and spin_lock_init.
InitAllocQueue ==
    /\ ipc = "alloc_queue"
    /\ \/ /\ LET ks == ShrU64(MulU64(ToU64(cfg.num_sectors), ToU64(cfg.sector_size)),
                              KERNEL_SHIFT)
             IN  /\ kernel_sectors' = ks
                 /\ gd' = [gd EXCEPT !.queue = "queue", !.capacity = ks]
          /\ host' = [host EXCEPT !.queue = "live"]
          /\ dev' = [dev EXCEPT !.lock_init = TRUE]
          /\ log' = Append(log, Ev("blk_alloc_queue", 0, TRUE))
          /\ ipc' = "add_disk"
          /\ UNCHANGED rc
       \/ /\ log' = Append(log, Ev("blk_alloc_queue", 0, FALSE))
          /\ rc' = 0 - ENOMEM
          /\ ipc' = "err_vfree"
          /\ UNCHANGED <<dev, host, gd, kernel_sectors>>
    /\ UNCHANGED <<geo, prev, cfg, mem>>
    /\ UNCHANGED ioVars

\* add_disk(dev->disk): from here on the host may submit bios.
InitAddDisk ==
    /\ ipc = "add_disk"
    /\ host' = [host EXCEPT !.published = TRUE]
    /\ log' = Append(log, Ev("add_disk", 0, TRUE))
    /\ ipc' = "ret0"
    /\ UNCHANGED <<geo, prev, cfg, dev, kernel_sectors, gd, rc, mem>>
    /\ UNCHANGED ioVars

\* return 0.
InitReturn ==
    /\ ipc = "ret0"
    /\ ipc' = "ready"
    /\ UNCHANGED <<geo, prev, cfg, dev, kernel_sectors, gd, host, log, rc, mem>>
    /\ UNCHANGED ioVars

\* ------------------------------------------- the release code, as written twice
\* err_out (lines 169-178) and xiprd_exit (lines 187-195) are the same five
\* statements. Each operator below is one of them, as a step from ipc to `next`;
\* a call the host does not define (a second vfree, del_gendisk of a disk never
\* added, a queue read out of a freed disk) either returns or stops in an oops.

\* if(dev->ramdisk) vfree(dev->ramdisk);
ReleaseVfree(next) ==
    IF dev.ramdisk = NULL
    THEN /\ ipc' = next
         /\ UNCHANGED <<host, log>>
    ELSE /\ log' = Append(log, Ev("vfree", 0, host.vm = "live"))
         /\ IF host.vm = "live"
            THEN /\ host' = [host EXCEPT !.vm = "freed"]
                 /\ ipc' = next
            ELSE /\ UNCHANGED host
                 /\ ipc' \in {next, "oops"}

\* if(dev->disk) del_gendisk(dev->disk); without a disk the block is skipped.
ReleaseDelGendisk(next, end) ==
    IF dev.disk = NULL
    THEN /\ ipc' = end
         /\ UNCHANGED <<host, log>>
    ELSE /\ log' = Append(log, Ev("del_gendisk", 0, host.published))
         /\ IF host.disk = "live" /\ host.published
            THEN /\ host' = [host EXCEPT !.published = FALSE]
                 /\ ipc' = next
            ELSE /\ UNCHANGED host
                 /\ ipc' \in {next, "oops"}

\* put_disk(dev->disk): drops the last reference, the host frees the disk.
ReleasePutDisk(next) ==
    /\ log' = Append(log, Ev("put_disk", 0, host.disk = "live"))
    /\ IF host.disk = "live"
       THEN /\ host' = [host EXCEPT !.disk = "freed"]
            /\ ipc' = next
       ELSE /\ UNCHANGED host
            /\ ipc' \in {next, "oops"}

\* blk_cleanup_queue(dev->disk->queue): the queue is read out of the disk that
\* put_disk has just freed; the read gives what was there or anything else.
ReleaseCleanupQueue(next) ==
    \E q \in {gd.queue, "garbage"} :
        IF q = "queue" /\ host.queue = "live"
        THEN /\ log' = Append(log, Ev("blk_cleanup_queue", 0, TRUE))
             /\ host' = [host EXCEPT !.queue = "released"]
             /\ ipc' = next
        ELSE /\ log' = Append(log, Ev("blk_cleanup_queue", 0, FALSE))
             /\ UNCHANGED host
             /\ ipc' \in {next, "oops"}

\* unregister_blkdev(dev->major, dev->name): the host drops the registration
\* of that major if there is one.
ReleaseUnregister(next) ==
    /\ log' = Append(log, Ev("unregister_blkdev", dev.major, dev.major \in host.majors))
    /\ host' = [host EXCEPT !.majors = @ \ {dev.major}]
    /\ ipc' = next

\* ----------------------------------------------------- xiprd_init: err_out

ErrVfree ==
    /\ ipc = "err_vfree"
    /\ ReleaseVfree("err_del")
    /\ UNCHANGED <<geo, prev, cfg, dev, kernel_sectors, gd, rc, mem>>
    /\ UNCHANGED ioVars

ErrDelGendisk ==
    /\ ipc = "err_del"
    /\ ReleaseDelGendisk("err_put", "failed")
    /\ UNCHANGED <<geo, prev, cfg, dev, kernel_sectors, gd, rc, mem>>
    /\ UNCHANGED ioVars

ErrPutDisk ==
    /\ ipc = "err_put"
    /\ ReleasePutDisk("err_queue")
    /\ UNCHANGED <<geo, prev, cfg, dev, kernel_sectors, gd, rc, mem>>
    /\ UNCHANGED ioVars

ErrCleanupQueue ==
    /\ ipc = "err_queue"
    /\ ReleaseCleanupQueue("err_unreg")
    /\ UNCHANGED <<geo, prev, cfg, dev, kernel_sectors, gd, rc, mem>>
    /\ UNCHANGED ioVars

\* ... and return rc.
ErrUnregister ==
    /\ ipc = "err_unreg"
    /\ ReleaseUnregister("failed")
    /\ UNCHANGED <<geo, prev, cfg, dev, kernel_sectors, gd, rc, mem>>
    /\ UNCHANGED ioVars

\* --------------------------------------------------------------- xiprd_exit

\* The host calls xiprd_exit at most once, never while xiprd_init runs and never
\* with a bio in flight; it may call it whether or not the device got ready.
ExitStart ==
    /\ ipc \in {"unloaded", "ready", "failed"}
    /\ \A t \in Threads : pc[t] \in {"idle", "returned"}
    /\ ipc' = "exit_vfree"
    /\ UNCHANGED <<geo, prev, cfg, dev, kernel_sectors, gd, host, log, rc, mem>>
    /\ UNCHANGED ioVars

ExitVfree ==
    /\ ipc = "exit_vfree"
    /\ ReleaseVfree("exit_del")
    /\ UNCHANGED <<geo, prev, cfg, dev, kernel_sectors, gd, rc, mem>>
    /\ UNCHANGED ioVars

ExitDelGendisk ==
    /\ ipc = "exit_del"
    /\ ReleaseDelGendisk("exit_put", "stopped")
    /\ UNCHANGED <<geo, prev, cfg, dev, kernel_sectors, gd, rc, mem>>
    /\ UNCHANGED ioVars

ExitPutDisk ==
    /\ ipc = "exit_put"
    /\ ReleasePutDisk("exit_queue")
    /\ UNCHANGED <<geo, prev, cfg, dev, kernel_sectors, gd, rc, mem>>
    /\ UNCHANGED ioVars

ExitCleanupQueue ==
    /\ ipc = "exit_queue"
    /\ ReleaseCleanupQueue("exit_unreg")
    /\ UNCHANGED <<geo, prev, cfg, dev, kernel_sectors, gd, rc, mem>>
    /\ UNCHANGED ioVars

ExitUnregister ==
    /\ ipc = "exit_unreg"
    /\ ReleaseUnregister("stopped")
    /\ UNCHANGED <<geo, prev, cfg, dev, kernel_sectors, gd, rc, mem>>
    /\ UNCHANGED ioVars

\* ------------------------------------------------------- xiprd_make_request

\* x << n.
Shl(x, n) == x * (2 ^ n)

\* The bios the host may submit: a direction, a start sector in the host's
\* 512-byte units, and the bv_len of each segment.
LenSeqs == UNION {[1..n -> SegLens] : n \in 0..MaxSegs}
Bios == [dir : {"READ", "WRITE"}, bi_sector : 0..MaxSector, lens : LenSeqs]

RECURSIVE SumLens(_, _)
SumLens(lens, n) == IF n = 0 THEN 0 ELSE lens[n] + SumLens(lens, n - 1)

\* The length of the vmalloc area in bytes, as far as the modelled memory goes.
SizeBytes == IF FitsInt(host.vmlen) THEN U64Low(host.vmlen) ELSE MemTop

\* A page cell the driver has not filled, and the data the caller put in
\* segment k, cell j, of the bio submitted by t: all different.
Unfilled == 0 - 1
Poison == 0 - 2
Datum(t, k, j) == 16 * t + 2 * k + j

\* The pages of a bio as the caller hands them over: its data for a write, and
\* buffers to be filled for a read.
CallerPages(b, t) ==
    [k \in 1..Len(b.lens) |->
        [j \in 1..(b.lens[k] \div Cell) |->
            IF b.dir = "WRITE" THEN Datum(t, k, j) ELSE Unfilled]]

\* The cells of [o, o + len).
CellsOf(o, len) == {a \in CellAddrs : o <= a /\ a < o + len}

\* MemcpyToStore that copies one cell more than bv_len.
MemcpyToStoreOverrun(m, o, buf, len, top) ==
    [a \in CellAddrs |->
        IF a \in CellsOf(o, len + Cell) /\ a < top
        THEN IF a < o + len THEN buf[((a - o) \div Cell) + 1] ELSE Poison
        ELSE m[a]]

\* memcpy(dest, buf, bv_len) with dest = dev->ramdisk + o, up to address `top`.
MemcpyToStore(m, o, buf, len, top) ==
    [a \in CellAddrs |->
        IF a \in CellsOf(o, len) /\ a < top THEN buf[((a - o) \div Cell) + 1] ELSE m[a]]

\* MemcpyFromStore with the arguments the wrong way round: the page is the
\* source and is left as it was.
MemcpyFromStoreSwapped(m, o, buf, len, top) == buf

\* memcpy(buf, dest, bv_len) with dest = dev->ramdisk + o, up to address `top`.
MemcpyFromStore(m, o, buf, len, top) ==
    [j \in 1..(len \div Cell) |->
        IF o + (j - 1) * Cell < top THEN m[o + (j - 1) * Cell] ELSE buf[j]]

\* MakeRequest with the start sector counted in the device's configured
\* sector_size.
MakeRequestSectorSize(t) ==
    /\ pc[t] = "idle"
    /\ host.published
    /\ ipc \in {"ret0", "ready"}
    /\ \E b \in Bios :
          /\ bio' = [bio EXCEPT ![t] = b]
          /\ page' = [page EXCEPT ![t] = CallerPages(b, t)]
          /\ offset' = [offset EXCEPT ![t] = b.bi_sector * cfg.sector_size]
    /\ segno' = [segno EXCEPT ![t] = 0]
    /\ done' = [done EXCEPT ![t] = NotDone]
    /\ pc' = [pc EXCEPT ![t] = "lock"]
    /\ UNCHANGED <<lock, shadow, mem>>
    /\ UNCHANGED lifeVars

\* The host hands over a bio; dev = q->queuedata and
\* offset = bi->bi_sector << KERNEL_SHIFT.
MakeRequest(t) ==
    /\ pc[t] = "idle"
    /\ host.published
    /\ ipc \in {"ret0", "ready"}
    /\ \E b \in Bios :
          /\ bio' = [bio EXCEPT ![t] = b]
          /\ page' = [page EXCEPT ![t] = CallerPages(b, t)]
          /\ offset' = [offset EXCEPT ![t] = Shl(b.bi_sector, KERNEL_SHIFT)]
    /\ segno' = [segno EXCEPT ![t] = 0]
    /\ done' = [done EXCEPT ![t] = NotDone]
    /\ pc' = [pc EXCEPT ![t] = "lock"]
    /\ UNCHANGED <<lock, shadow, mem>>
    /\ UNCHANGED lifeVars

\* -- what a one-at-a-time execution does with a bio (kept beside the code) --

\* Where the bio's k-th segment lies on the device, in bytes: the start sector
\* in the host's 512-byte unit, then the segments before it.
SegStart(b, k) == b.bi_sector * SECTOR_SIZE + SumLens(b.lens, k - 1)

\* The bio addresses bytes of the store only.
InRange(b) == SegStart(b, Len(b.lens) + 1) <= SizeBytes

\* The store after a valid write taken as a whole; the cells a write reaching
\* past the store touches are left undetermined.
ShadowAfter(sh, b, pages) ==
    [a \in CellAddrs |->
        IF \E k \in 1..Len(b.lens) : a \in CellsOf(SegStart(b, k), b.lens[k])
        THEN IF InRange(b)
             THEN LET k == CHOOSE k \in 1..Len(b.lens) :
                               a \in CellsOf(SegStart(b, k), b.lens[k])
                  IN  pages[k][((a - SegStart(b, k)) \div Cell) + 1]
             ELSE Poison
        ELSE sh[a]]

\* SpinLock that does not wait for the lock to be free.
SpinLockNoWait(t) ==
    /\ pc[t] = "lock"
    /\ lock' = t
    /\ pc' = [pc EXCEPT ![t] = "copy"]
    /\ shadow' = IF bio[t].dir = "WRITE"
                 THEN ShadowAfter(shadow, bio[t], page[t])
                 ELSE shadow
    /\ UNCHANGED <<bio, segno, offset, page, done, mem>>
    /\ UNCHANGED lifeVars

\* SpinLock that lets a reader through without taking the lock.
SpinLockReadersBypass(t) ==
    /\ pc[t] = "lock"
    /\ IF bio[t].dir = "READ"
       THEN UNCHANGED <<lock, shadow>>
       ELSE /\ lock = 0
            /\ lock' = t
            /\ shadow' = ShadowAfter(shadow, bio[t], page[t])
    /\ pc' = [pc EXCEPT ![t] = "copy"]
    /\ UNCHANGED <<bio, segno, offset, page, done, mem>>
    /\ UNCHANGED lifeVars

\* spin_lock_irq(&dev->lock).
SpinLock(t) ==
    /\ pc[t] = "lock"
    /\ lock = 0
    /\ lock' = t
    /\ pc' = [pc EXCEPT ![t] = "copy"]
    /\ shadow' = IF bio[t].dir = "WRITE"
                 THEN ShadowAfter(shadow, bio[t], page[t])
                 ELSE shadow
    /\ UNCHANGED <<bio, segno, offset, page, done, mem>>
    /\ UNCHANGED lifeVars

\* CopySegment with the lock taken per segment, not per bio: after a segment
\* that is not the last the lock is dropped and taken again.
CopySegmentLockPerSegment(t) ==
    /\ pc[t] = "copy"
    /\ segno[t] < Len(bio[t].lens)
    /\ LET k == segno[t] + 1
           len == bio[t].lens[k]
       IN  /\ IF bio[t].dir = "WRITE"
              THEN /\ mem' = MemcpyToStore(mem, offset[t], page[t][k], len, MemTop)
                   /\ UNCHANGED page
              ELSE /\ page' = [page EXCEPT
                         ![t][k] = MemcpyFromStore(mem, offset[t], page[t][k], len, MemTop)]
                   /\ UNCHANGED mem
           /\ offset' = [offset EXCEPT ![t] = @ + len]
           /\ segno' = [segno EXCEPT ![t] = k]
           /\ IF k < Len(bio[t].lens)
              THEN /\ lock' = 0
                   /\ pc' = [pc EXCEPT ![t] = "lock"]
              ELSE UNCHANGED <<lock, pc>>
    /\ UNCHANGED <<bio, done, shadow>>
    /\ UNCHANGED lifeVars

\* One turn of bio_for_each_segment: the memcpy in the bio's direction, then
\* offset += bv_len. A copy that reaches past the vmalloc area either goes
\* through into the memory behind it or stops the submitter in an oops at the
\* end of the area, the lock still held.
CopySegment(t) ==
    /\ pc[t] = "copy"
    /\ segno[t] < Len(bio[t].lens)
    /\ LET k == segno[t] + 1
           len == bio[t].lens[k]
           past == len > 0 /\ offset[t] + len > SizeBytes
       IN  \E top \in (IF past THEN {SizeBytes, MemTop} ELSE {MemTop}) :
              /\ IF bio[t].dir = "WRITE"
                 THEN /\ mem' = MemcpyToStore(mem, offset[t], page[t][k], len, top)
                      /\ UNCHANGED page
                 ELSE /\ page' = [page EXCEPT
                            ![t][k] = MemcpyFromStore(mem, offset[t], page[t][k], len, top)]
                      /\ UNCHANGED mem
              /\ IF top < MemTop
                 THEN /\ pc' = [pc EXCEPT ![t] = "oops"]
                      /\ UNCHANGED <<offset, segno>>
                 ELSE /\ offset' = [offset EXCEPT ![t] = @ + len]
                      /\ segno' = [segno EXCEPT ![t] = k]
                      /\ UNCHANGED pc
    /\ UNCHANGED <<lock, bio, done, shadow>>
    /\ UNCHANGED lifeVars

\* SpinUnlock with the loop left after at most one segment.
SpinUnlockEarly(t) ==
    /\ pc[t] = "copy"
    /\ segno[t] >= 1 \/ segno[t] = Len(bio[t].lens)
    /\ lock' = 0
    /\ pc' = [pc EXCEPT ![t] = "endio"]
    /\ UNCHANGED <<bio, segno, offset, page, done, shadow, mem>>
    /\ UNCHANGED lifeVars

\* The loop is over: spin_unlock_irq(&dev->lock).
SpinUnlock(t) ==
    /\ pc[t] = "copy"
    /\ segno[t] = Len(bio[t].lens)
    /\ lock' = 0
    /\ pc' = [pc EXCEPT ![t] = "endio"]
    /\ UNCHANGED <<bio, segno, offset, page, done, shadow, mem>>
    /\ UNCHANGED lifeVars

\* bio_endio(bi, 0); return 0. `done` keeps what was true when the completion
\* was signalled: the segments copied by then and whether the lock was held.
BioEndio(t) ==
    /\ pc[t] = "endio"
    /\ done' = [done EXCEPT ![t] =
                  [signalled |-> TRUE, error |-> 0, copied |-> segno[t],
                   locked |-> lock = t]]
    /\ pc' = [pc EXCEPT ![t] = "returned"]
    /\ UNCHANGED <<lock, bio, segno, offset, page, shadow, mem>>
    /\ UNCHANGED lifeVars

\* ------------------------------------------------------------ specification

\* ------------------------------------------------------------ xiprd_getgeo

\* The value an unsigned short keeps of a u64: its low 16 bits.
LowShort(a) == a[0] + LimbBase * a[1]

\* xiprd_getgeo, called by the host for a published disk: heads = (u8)(1 << 6),
\* sectors = (u8)(1 << 5), and get_capacity(bd_disk) >> 11 stored in the
\* unsigned short cylinders.
GetGeo ==
    /\ host.published
    /\ geo' = [heads |-> (2 ^ 6) % LimbBase,
               sectors |-> (2 ^ 5) % LimbBase,
               cylinders |-> LowShort(ShrU64(gd.capacity, 11)),
               filled |-> TRUE]
    /\ UNCHANGED <<cfg, dev, kernel_sectors, gd, host, log, ipc, rc, prev, mem>>
    /\ UNCHANGED ioVars

\* The module, unloaded or never loaded, is loaded again with other
\* parameters; what the host was answered in the load that ended is kept.
Reload ==
    /\ ipc \in {"stopped", "failed"}
    /\ cfg' \in GeoConfigs
    /\ prev' = IF geo.filled
               THEN [seen |-> TRUE, capacity |-> gd.capacity, geo |-> geo]
               ELSE prev
    /\ dev' = ZeroDev
    /\ kernel_sectors' = ToU64(0)
    /\ gd' = ZeroDisk
    /\ host' = NoHost
    /\ log' = <<>>
    /\ ipc' = "unloaded"
    /\ rc' = 0
    /\ geo' = NoGeo
    /\ mem' = [a \in CellAddrs |-> 0]
    /\ shadow' = [a \in CellAddrs |-> 0]
    /\ UNCHANGED <<lock, pc, bio, segno, offset, page, done>>

Next ==
    \/ InitStart
    \/ InitVmalloc
    \/ InitRegister
    \/ InitAllocDisk
    \/ InitAllocQueue
    \/ InitAddDisk
    \/ InitReturn
    \/ ErrVfree
    \/ ErrDelGendisk
    \/ ErrPutDisk
    \/ ErrCleanupQueue
    \/ ErrUnregister
    \/ ExitStart
    \/ ExitVfree
    \/ ExitDelGendisk
    \/ ExitPutDisk
    \/ ExitCleanupQueue
    \/ ExitUnregister
    \/ \E t \in Threads : MakeRequest(t)
    \/ \E t \in Threads : SpinLock(t)
    \/ \E t \in Threads : CopySegment(t)
    \/ \E t \in Threads : SpinUnlock(t)
    \/ \E t \in Threads : BioEndio(t)

Spec == Init /\ [][Next]_vars

\* The driver with bios and with geometry queries, on a device whose
\* sector_size is not the host's 512-byte unit.
QueryConfigs ==
    { [sector_size |-> 2 * SECTOR_SIZE, num_sectors |-> 1, long_bits |-> 64] }

QueryInit == Unloaded(QueryConfigs)

QueryNext == Next \/ GetGeo

QuerySpec == QueryInit /\ [][QueryNext]_vars

\* Loads with parameters of a size at which the integer widths show, the
\* geometry asked for, and the module loaded again; no bios are submitted.
GeoInit == Unloaded(GeoConfigs)

GeoNext ==
    \/ InitStart
    \/ InitVmalloc
    \/ InitRegister
    \/ InitAllocDisk
    \/ InitAllocQueue
    \/ InitAddDisk
    \/ InitReturn
    \/ ErrVfree
    \/ ErrDelGendisk
    \/ ErrPutDisk
    \/ ErrCleanupQueue
    \/ ErrUnregister
    \/ ExitStart
    \/ ExitVfree
    \/ ExitDelGendisk
    \/ ExitPutDisk
    \/ ExitCleanupQueue
    \/ ExitUnregister
    \/ GetGeo
    \/ Reload

GeoSpec == GeoInit /\ [][GeoNext]_vars

\* ------------------------------------------------------------------ claims

\* How often the host call `op` was made, and how often it succeeded.
Calls(op) == Cardinality({i \in DOMAIN log : log[i].op = op})
OkCalls(op) == Cardinality({i \in DOMAIN log : log[i].op = op /\ log[i].ok})

\* Each resource's acquiring call and releasing call.
AcquireRelease ==
    { <<"vmalloc", "vfree">>,
      <<"register_blkdev", "unregister_blkdev">>,
      <<"alloc_disk", "put_disk">>,
      <<"blk_alloc_queue", "blk_cleanup_queue">>,
      <<"add_disk", "del_gendisk">> }

\* What the host still holds for the driver.
Outstanding ==
    host.vm = "live" \/ host.majors # {} \/ host.disk = "live" \/ host.queue = "live"

\* All segments of t's bio are copied and t still holds the lock.
AllCopied(t) == pc[t] = "copy" /\ segno[t] = Len(bio[t].lens)

\* The device cells of segment k of bio b, by page cell index.
SegCell(b, k, j) == SegStart(b, k) + (j - 1) * Cell

\* C1. Round trip: a read of a range inside the store returns, for every byte,
\* the data of the last valid write to that byte (the writes taken in the order
\* in which they got the lock); so a write followed, with no write to the range
\* in between, by a read of the same range returns the data written.
C1_RoundTrip ==
    \A t \in Threads :
        (bio[t].dir = "READ" /\ InRange(bio[t]) /\ AllCopied(t)) =>
            \A k \in 1..Len(bio[t].lens) :
                \A j \in 1..(bio[t].lens[k] \div Cell) :
                    shadow[SegCell(bio[t], k, j)] # Poison =>
                        page[t][k][j] = shadow[SegCell(bio[t], k, j)]

\* C1's case: a two-segment write of sector 0 has returned, and a two-segment
\* read of the same range has copied exactly that write's data.
C1_Witness ==
    \E w, r \in Threads :
        /\ bio[w].dir = "WRITE" /\ pc[w] = "returned"
        /\ bio[w].bi_sector = 0 /\ bio[w].lens = <<SECTOR_SIZE, SECTOR_SIZE>>
        /\ bio[r].dir = "READ" /\ AllCopied(r)
        /\ bio[r].bi_sector = 0 /\ bio[r].lens = <<SECTOR_SIZE, SECTOR_SIZE>>
        /\ InRange(bio[r])
        /\ page[r] = CallerPages(bio[w], w)

\* C2. Mutual exclusion: at most one submitter is between spin_lock_irq and
\* spin_unlock_irq, and it is the one the lock names.
C2_MutualExclusion ==
    /\ Cardinality({t \in Threads : pc[t] \in {"copy", "oops"}}) <= 1
    /\ \A t \in Threads : pc[t] \in {"copy", "oops"} => lock = t

\* C2's case: one submitter copies while another waits for the lock.
C2_Witness ==
    \E t, u \in Threads :
        /\ pc[t] = "copy" /\ segno[t] = 1 /\ Len(bio[t].lens) = 2
        /\ pc[u] = "lock"

\* C3. Serialization: whenever no bio is in its copy phase, every byte of the
\* store holds what the valid writes so far leave when applied whole, one after
\* another, in the order in which they got the lock.
C3_Serialization ==
    lock = 0 =>
        \A a \in CellAddrs :
            (a < SizeBytes /\ shadow[a] # Poison) => mem[a] = shadow[a]

\* C3's case: two overlapping two-segment writes are in flight at once; one
\* has run its copy phase and released the lock, the other waits to take it.
C3_Witness ==
    \E t, u \in Threads :
        /\ lock = 0
        /\ pc[t] = "endio" /\ pc[u] = "lock"
        /\ \A x \in {t, u} :
              /\ bio[x].dir = "WRITE"
              /\ bio[x].bi_sector = 0
              /\ bio[x].lens = <<SECTOR_SIZE, SECTOR_SIZE>>
              /\ InRange(bio[x])
        /\ mem[0] = Datum(t, 1, 1) /\ mem[SECTOR_SIZE] = Datum(t, 2, 1)

\* C4. Bounds rejection, as claimed: for a bio that reaches past the store no
\* byte of any segment is copied (offset never leaves the bio's start) and the
\* completion carries an error.
C4_BoundsRejection ==
    \A t \in Threads :
        (bio[t] # NoBio /\ ~InRange(bio[t])) =>
            /\ offset[t] = Shl(bio[t].bi_sector, KERNEL_SHIFT)
            /\ done[t].signalled => done[t].error # 0

\* C5. Lifecycle rollback, as claimed: when init has returned its error, the
\* host holds nothing for the driver and nothing was released more often than
\* it was acquired.
C5_LifecycleRollback ==
    ipc = "failed" =>
        /\ ~Outstanding
        /\ \A p \in AcquireRelease : Calls(p[2]) <= OkCalls(p[1])

\* C6. No partial device: the disk is published only after vmalloc,
\* register_blkdev, alloc_disk and blk_alloc_queue have all succeeded, and an
\* init that fails has never published it.
C6_NoPartialDevice ==
    /\ (host.published \/ Calls("add_disk") > 0) =>
          \A op \in {"vmalloc", "register_blkdev", "alloc_disk", "blk_alloc_queue"} :
              OkCalls(op) = 1 /\ Calls(op) = 1
    /\ rc < 0 => (~host.published /\ Calls("add_disk") = 0)

\* C6's case: init went through and the disk is published.
C6_Witness == host.published /\ ipc = "ready" /\ Calls("add_disk") = 1

\* C7. Partial teardown, as claimed: when xiprd_exit runs on a device that was
\* never published, no release is made more often than its acquire succeeded.
C7_PartialTeardown ==
    (ipc \in {"exit_vfree", "exit_del", "exit_put", "exit_queue", "exit_unreg", "stopped"}
        /\ Calls("add_disk") = 0) =>
        \A p \in AcquireRelease : Calls(p[2]) <= OkCalls(p[1])

\* C8. Clean shutdown, as claimed: xiprd_exit after a successful init ends with
\* the disk unpublished, nothing left with the host, and each release made
\* exactly once.
C8_CleanShutdown ==
    (ipc = "stopped" /\ OkCalls("add_disk") = 1) =>
        /\ ~host.published
        /\ ~Outstanding
        /\ \A p \in AcquireRelease : Calls(p[2]) = 1

\* C9. Configuration validation, as claimed: with a sector_size or num_sectors
\* that is not positive, vmalloc is never called.
C9_ConfigValidation ==
    (cfg.sector_size <= 0 \/ cfg.num_sectors <= 0) => Calls("vmalloc") = 0

\* C10. Synchronous completion: when bio_endio is called every segment has been
\* copied, every page cell of a read is filled and the lock is released; and
\* xiprd_make_request returns only after bio_endio.
C10_SynchronousCompletion ==
    \A t \in Threads :
        /\ done[t].signalled =>
              /\ done[t].copied = Len(bio[t].lens)
              /\ ~done[t].locked
              /\ lock # t
              /\ bio[t].dir = "READ" =>
                    \A k \in 1..Len(bio[t].lens) :
                        \A j \in 1..(bio[t].lens[k] \div Cell) : page[t][k][j] # Unfilled
        /\ pc[t] = "returned" => done[t].signalled

\* C10's case: a two-segment read has been completed and has returned.
C10_Witness ==
    \E t \in Threads :
        /\ pc[t] = "returned" /\ done[t].signalled
        /\ bio[t].dir = "READ"
        /\ bio[t].lens = <<SECTOR_SIZE, SECTOR_SIZE>>

\* The submitters under fair scheduling: a submitter that can take a step of
\* xiprd_make_request takes it, and the (ticket) spinlock is handed to every
\* waiter in turn.
FairSpec ==
    /\ Spec
    /\ \A t \in Threads :
          /\ SF_vars(SpinLock(t))
          /\ WF_vars(CopySegment(t))
          /\ WF_vars(SpinUnlock(t))
          /\ WF_vars(BioEndio(t))

\* C11. Request termination, as claimed: under fair scheduling every bio that
\* is submitted is completed and xiprd_make_request returns.
C11_RequestTermination ==
    \A t \in Threads : (pc[t] = "lock") ~> (pc[t] = "returned")

\* The place of each release in the reverse of the order of acquisition
\* (vmalloc, register_blkdev, alloc_disk, blk_alloc_queue, add_disk).
ReverseRank(op) ==
    CASE op = "del_gendisk" -> 1
      [] op = "blk_cleanup_queue" -> 2
      [] op = "put_disk" -> 3
      [] op = "unregister_blkdev" -> 4
      [] op = "vfree" -> 5
      [] OTHER -> 0

\* The releases logged so far were made in reverse order of acquisition.
ReleasedInReverse ==
    \A i, j \in DOMAIN log :
        (i < j /\ ReverseRank(log[i].op) > 0 /\ ReverseRank(log[j].op) > 0)
            => ReverseRank(log[i].op) < ReverseRank(log[j].op)

\* C14. Release order, as claimed: when the rollback of a failed init, or the
\* shutdown after a successful init, has ended, its releases were made in
\* strict reverse order of acquisition: del_gendisk, blk_cleanup_queue,
\* put_disk, unregister_blkdev, and vfree last.
C14_ReleaseOrder ==
    (ipc = "failed" \/ (ipc = "stopped" /\ OkCalls("add_disk") = 1))
        => ReleasedInReverse

\* C15. Driver registration tracking, as claimed: unregister_blkdev is only
\* ever called with a major that an earlier register_blkdev of this lifecycle
\* returned, and when the rollback or the shutdown has ended it was called if
\* and only if register_blkdev had succeeded.
C15_RegistrationTracking ==
    /\ \A j \in DOMAIN log :
          log[j].op = "unregister_blkdev" =>
              \E i \in 1..(j - 1) :
                  /\ log[i].op = "register_blkdev"
                  /\ log[i].ok
                  /\ log[i].arg = log[j].arg
    /\ ipc \in {"failed", "stopped"} =>
          (Calls("unregister_blkdev") > 0 <=> OkCalls("register_blkdev") > 0)

\* C16. Store liveness while published, as claimed: whenever the disk is
\* published to the host, the backing store is allocated and not yet freed and
\* dev->lock is initialized.
C16_StoreLiveWhilePublished ==
    host.published => (host.vm = "live" /\ dev.lock_init)

\* Byte `at` of the store is where segment k of t's bio is copied in the step
\* that copies it: the store (for a write) or the page (for a read) after the
\* step is what a memcpy of the segment's bv_len bytes at `at` makes of it.
CopiedAt(t, k, at) ==
    IF bio[t].dir = "WRITE"
    THEN mem' = MemcpyToStore(mem, at, page[t][k], bio[t].lens[k], MemTop)
    ELSE page'[t][k] = MemcpyFromStore(mem, at, page[t][k], bio[t].lens[k], MemTop)

\* Every step that copies a segment copies the next segment of its bio, at
\* the bio's start sector counted in `unit` bytes plus the lengths of the
\* segments before it.
PlacedBy(unit) ==
    \A t \in Threads :
        (pc[t] = "copy" /\ segno'[t] # segno[t]) =>
            /\ segno'[t] = segno[t] + 1
            /\ CopiedAt(t, segno'[t],
                        bio[t].bi_sector * unit + SumLens(bio[t].lens, segno[t]))

\* C17. Offset translation and segment placement: the k-th segment of a bio
\* with start sector s is copied to or from the store bytes starting at
\* s * 512 plus the lengths of the segments before k, 512 being the host's
\* fixed sector unit, whatever the configured sector_size; the segments are
\* taken in order and lie one after the other.
C17_OffsetTranslation == [][PlacedBy(2 ^ KERNEL_SHIFT)]_vars

\* C17 as claimed: the start sector is counted in the device's configured
\* sector_size.
C17_OffsetBySectorSize == [][PlacedBy(cfg.sector_size)]_vars

\* C17's case: on a device whose sector_size is not 512, a bio that does not
\* start at sector 0 has had a segment of data copied.
C17_Witness ==
    \E t \in Threads :
        /\ cfg.sector_size # 2 ^ KERNEL_SHIFT
        /\ bio[t].bi_sector > 0
        /\ pc[t] = "copy"
        /\ segno[t] >= 1
        /\ bio[t].lens[1] > 0

\* The store cells that the bio of t addresses, and the page cell of that bio
\* that belongs to store cell a.
Covered(t) ==
    {a \in CellAddrs :
        \E k \in 1..Len(bio[t].lens) : a \in CellsOf(SegStart(bio[t], k), bio[t].lens[k])}
PageAt(t, a) ==
    LET k == CHOOSE k \in 1..Len(bio[t].lens) :
                 a \in CellsOf(SegStart(bio[t], k), bio[t].lens[k])
    IN  page[t][k][((a - SegStart(bio[t], k)) \div Cell) + 1]

\* C18. No torn read: when a read inside the store has copied all its
\* segments, then of the cells it shares with a write inside the store that is
\* in flight or was completed, it holds either the written data in every cell
\* or the written data in none.
C18_NoTornRead ==
    \A r, w \in Threads :
        ( /\ bio[r].dir = "READ" /\ InRange(bio[r])
          /\ bio[w].dir = "WRITE" /\ InRange(bio[w])
          /\ pc[r] \in {"copy", "endio", "returned"}
          /\ segno[r] = Len(bio[r].lens) )
        => LET both == Covered(r) \cap Covered(w)
           IN  \/ \A a \in both : PageAt(r, a) = PageAt(w, a)
               \/ \A a \in both : PageAt(r, a) # PageAt(w, a)

\* C18's case: a read of two segments has copied both while a write of two
\* segments over the same cells is waiting for the lock.
C18_Witness ==
    \E r, w \in Threads :
        /\ bio[r].dir = "READ" /\ InRange(bio[r])
        /\ bio[w].dir = "WRITE" /\ InRange(bio[w])
        /\ AllCopied(r)
        /\ pc[w] = "lock"
        /\ Len(bio[r].lens) = 2
        /\ Len(bio[w].lens) = 2
        /\ Cardinality(Covered(r) \cap Covered(w)) >= 4

\* A capacity in host sectors as a number (every capacity of GeoConfigs is
\* below 2^31), and the size of the device that a geometry describes.
CapacityOf(a) ==
    a[0] + LimbBase * (a[1] + LimbBase * (a[2] + LimbBase * a[3]))
GeoProduct(g) == g.heads * g.sectors * g.cylinders

\* C12. Geometry consistency, as claimed: for a positive capacity, heads *
\* sectors * cylinders of the geometry returned is within 2048 host sectors of
\* the capacity, and of two devices the one with the larger capacity does not
\* get the smaller product.
C12_GeometryConsistency ==
    (geo.filled /\ ~IsZeroU64(gd.capacity)) =>
        /\ GeoProduct(geo) - CapacityOf(gd.capacity) <= 2 ^ 11
        /\ CapacityOf(gd.capacity) - GeoProduct(geo) <= 2 ^ 11
        /\ (prev.seen /\ CapacityOf(prev.capacity) <= CapacityOf(gd.capacity))
              => GeoProduct(prev.geo) <= GeoProduct(geo)
        /\ (prev.seen /\ CapacityOf(gd.capacity) <= CapacityOf(prev.capacity))
              => GeoProduct(geo) <= GeoProduct(prev.geo)

\* C13. Geometry policy, as claimed: the geometry returned has heads = 64,
\* sectors = 32 and cylinders = (capacity_bytes / 512) >> 11, whatever the
\* configured sector_size.
C13_GeometryPolicy ==
    geo.filled =>
        /\ geo.heads = 64
        /\ geo.sectors = 32
        /\ ToU64(geo.cylinders) = ShrU64(ShrU64(dev.size, 9), 11)

\* What one step may do to the store while the disk is published: only the
\* holder of the lock, copying a segment of a WRITE, changes cells, and only
\* cells of that segment, which lie in the range the bio addresses; and a step
\* that fills in a geometry changes none.
FrameStep ==
    /\ (host.published /\ mem' # mem) =>
          \E t \in Threads :
              /\ lock = t
              /\ pc[t] = "copy"
              /\ bio[t].dir = "WRITE"
              /\ segno[t] < Len(bio[t].lens)
              /\ \A a \in CellAddrs :
                    mem'[a] # mem[a] =>
                        /\ a \in CellsOf(offset[t], bio[t].lens[segno[t] + 1])
                        /\ a \in Covered(t)
    /\ geo' # geo => mem' = mem

\* C19. Frame condition on the store: between init and teardown the bytes of
\* the store change only by the copy of a segment of a WRITE bio and only
\* inside the range the bio addresses; reads, bios without segments, segments
\* of length 0 and geometry queries change none.
C19_FrameCondition == [][FrameStep]_vars

\* C19's case: the geometry has been asked for, and a WRITE has copied a
\* segment of data into the store and a READ one out of it.
C19_Witness ==
    /\ geo.filled
    /\ \E w, r \in Threads :
          /\ bio[w].dir = "WRITE" /\ segno[w] >= 1 /\ bio[w].lens[1] > 0
          /\ bio[r].dir = "READ" /\ segno[r] >= 1 /\ bio[r].lens[1] > 0

\* a <= b for two u64.
LeU64(a, b) ==
    \/ a = b
    \/ \E i \in Limbs : a[i] < b[i] /\ \A j \in Limbs : j > i => a[j] = b[j]

\* C20. Advertised capacity fits the store, as claimed: after a successful
\* init, the capacity given to set_capacity, times 512 bytes, is not more than
\* the length of the area that vmalloc gave.
C20_CapacityFitsStore ==
    ipc \in {"ret0", "ready"} =>
        LeU64(gd.capacity, ShrU64(host.vmlen, KERNEL_SHIFT))

====
